---- MODULE Spec2Model ----
(***************************************************************************)
(* Model of github_activity.py: a CLI that fetches a GitHub user's public  *)
(* events (fetch_activity), renders each event to a line (format_event)    *)
(* and prints at most MAX_EVENTS_TO_SHOW of them (main).                   *)
(*                                                                         *)
(* Python values are tagged records: StrV(s), IntV(n) and PyNone.  A dict is *)
(* a function whose DOMAIN is the set of keys that are present.  A string  *)
(* the code takes apart character by character (payload.action,            *)
(* payload.ref) is a sequence of one-character strings.  A printed line is *)
(* the sequence of the pieces of its f-string.                             *)
(***************************************************************************)
EXTENDS Integers, Sequences, FiniteSets, TLC

VARIABLES argv,             \* sys.argv
          pc,               \* where main is: "main", "fetched", "loop", "exit"
          username,         \* main's username
          outcome,          \* what urlopen did in this run
          requests,         \* number of urlopen calls made
          events,           \* main's events: what fetch_activity returned
          idx,              \* position of the for loop in events
          displayed_count,  \* main's displayed_count
          stdout,           \* the lines printed so far
          raised,           \* the exception that left main uncaught, "" if none
          exit_code         \* the process's exit status, -1 while it runs

vars == <<argv, pc, username, outcome, requests, events, idx, displayed_count,
          stdout, raised, exit_code>>

----------------------------------------------------------------------------
(* Bounds of the model *)

\* longest event list the endpoint returns
MaxLen == 21
\* the event lists are the cyclic repetitions of a pattern of at most
\* MaxPattern events
MaxPattern == 2

----------------------------------------------------------------------------
(* Python values *)

StrV(s) == [t |-> "str", v |-> s]
IntV(n) == [t |-> "int", v |-> n]
PyNone == [t |-> "none"]
EmptyDict == <<>>

\* Python's == on two tagged values
PyEq(a, b) == a.t = b.t /\ (a.t # "none" => a.v = b.v)

\* dict.get(k, default)
Get(d, k, default) == IF k \in DOMAIN d THEN d[k] ELSE default

Digit == <<"0", "1", "2", "3", "4", "5", "6", "7", "8", "9">>

RECURSIVE IntStr(_)
\* str(n) of a non-negative int
IntStr(n) == IF n < 10 THEN Digit[n + 1]
             ELSE IntStr(n \div 10) \o Digit[(n % 10) + 1]

\* what an f-string renders for {v}
Render(v) == CASE v.t = "str" -> v.v
               [] v.t = "int" -> IntStr(v.v)
               [] v.t = "none" -> "None"

LowerLetters == <<"a", "b", "c", "d", "e", "f", "g", "h", "i", "j", "k", "l", "m",
                  "n", "o", "p", "q", "r", "s", "t", "u", "v", "w", "x", "y", "z">>
UpperLetters == <<"A", "B", "C", "D", "E", "F", "G", "H", "I", "J", "K", "L", "M",
                  "N", "O", "P", "Q", "R", "S", "T", "U", "V", "W", "X", "Y", "Z">>

Upper(c) == IF \E i \in 1..26 : LowerLetters[i] = c
            THEN UpperLetters[CHOOSE i \in 1..26 : LowerLetters[i] = c]
            ELSE c
Lower(c) == IF \E i \in 1..26 : UpperLetters[i] = c
            THEN LowerLetters[CHOOSE i \in 1..26 : UpperLetters[i] = c]
            ELSE c

\* str.capitalize(): first character upper case, the rest lower case
Capitalize(cs) == [i \in 1..Len(cs) |-> IF i = 1 THEN Upper(cs[i]) ELSE Lower(cs[i])]

\* str.split(sep)[-1]: the characters after the last separator
LastSegment(cs, sep) ==
    LET seps == {i \in 1..Len(cs) : cs[i] = sep}
        from == IF seps = {} THEN 0 ELSE CHOOSE i \in seps : \A j \in seps : j <= i
    IN  SubSeq(cs, from + 1, Len(cs))

----------------------------------------------------------------------------
(* format_event *)

Line(text) == [kind |-> "line", text |-> text]
NoLine == [kind |-> "none"]
Raise(exc) == [kind |-> "raise", exc |-> exc]

\* the suffix had the test been "commit_count > 1"
PluralSuffixGreaterThanOne(commit_count) ==
    IF commit_count.t = "int" /\ commit_count.v > 1 THEN "s" ELSE ""

\* 's' if commit_count != 1 else ''
PluralSuffix(commit_count) == IF ~PyEq(commit_count, IntV(1)) THEN "s" ELSE ""

\* action.capitalize(): None has no attribute 'capitalize'
ActionCapitalize(action, rest) ==
    IF action.t = "none" THEN Raise("AttributeError")
    ELSE Line(<<Capitalize(action.v)>> \o rest)

\* the CreateEvent branch; a ref_type that matches no test falls off the end
\* of the function, which returns None
FormatCreate(payload, repo_name) ==
    LET ref_type == Get(payload, "ref_type", PyNone)
        ref == Get(payload, "ref", PyNone)
    IN  IF PyEq(ref_type, StrV("repository"))
        THEN Line(<<"Created a new repository ", Render(repo_name)>>)
        ELSE IF PyEq(ref_type, StrV("branch"))
        THEN Line(<<"Created branch '", Render(ref), "' in ", Render(repo_name)>>)
        ELSE IF PyEq(ref_type, StrV("tag"))
        THEN Line(<<"Created tag '", Render(ref), "' in ", Render(repo_name)>>)
        ELSE NoLine

format_event(event) ==
    LET event_type == Get(event, "type", PyNone)
        repo_name == Get(Get(event, "repo", EmptyDict), "name", StrV("Unknown Repository"))
        payload == Get(event, "payload", EmptyDict)
        commit_count == Get(Get(event, "payload", EmptyDict), "size", StrV("x"))
        date == Get(event, "created_at", PyNone)
    IN  IF PyEq(event_type, StrV("PushEvent"))
        THEN LET branch == LastSegment(Get(payload, "ref", StrV(<<>>)).v, "/")
             IN  Line(<<"Pushed ", Render(commit_count), " commit",
                        PluralSuffix(commit_count), " to branch '", branch,
                        "' in ", Render(repo_name), " the ", Render(date)>>)
        ELSE IF PyEq(event_type, StrV("WatchEvent"))
        THEN Line(<<"Starred ", Render(repo_name)>>)
        ELSE IF PyEq(event_type, StrV("IssuesEvent"))
        THEN LET action == Get(payload, "action", PyNone)
                 issue_title == Get(Get(payload, "issue", EmptyDict), "title", StrV("an issue"))
                 issue_number == Get(Get(payload, "issue", EmptyDict), "number", StrV("N/A"))
             IN  ActionCapitalize(action,
                     <<" issue #", Render(issue_number), ": \"", Render(issue_title),
                       "\" in ", Render(repo_name)>>)
        ELSE IF PyEq(event_type, StrV("PullRequestEvent"))
        THEN LET action == Get(payload, "action", PyNone)
                 pr_title == Get(Get(payload, "pull_request", EmptyDict), "title", StrV("a pull request"))
                 pr_number == Get(Get(payload, "pull_request", EmptyDict), "number", StrV("N/A"))
             IN  ActionCapitalize(action,
                     <<" pull request #", Render(pr_number), ": \"", Render(pr_title),
                       "\" in ", Render(repo_name)>>)
        ELSE IF PyEq(event_type, StrV("CreateEvent"))
        THEN FormatCreate(payload, repo_name)
        ELSE IF PyEq(event_type, StrV("ForkEvent"))
        THEN Line(<<"Forked ", Render(repo_name), " to ",
                    Render(Get(Get(payload, "forkee", EmptyDict), "full_name",
                               StrV("a new repository")))>>)
        ELSE NoLine

----------------------------------------------------------------------------
(* Inputs: command lines, event records and what the endpoint answers *)

CommandLines == { <<"github_activity.py">>,
                  <<"github_activity.py", "octocat">>,
                  <<"github_activity.py", "octocat", "extra">> }

refs_heads_main == <<"r", "e", "f", "s", "/", "h", "e", "a", "d", "s", "/", "m", "a", "i", "n">>
feature_x == <<"f", "e", "a", "t", "u", "r", "e", "-", "x">>
opened == <<"o", "p", "e", "n", "e", "d">>
closed == <<"c", "l", "o", "s", "e", "d">>

octo_demo == [name |-> StrV("octo/demo")]

\* event records as the API sends them, some with fields absent
Catalog == <<
    [type |-> StrV("PushEvent"), repo |-> octo_demo, created_at |-> StrV("2024-01-01T00:00:00Z"),
     payload |-> [size |-> IntV(1), ref |-> StrV(refs_heads_main)]],
    [type |-> StrV("PushEvent"), repo |-> octo_demo,
     payload |-> [size |-> IntV(3), ref |-> StrV(refs_heads_main)]],
    [type |-> StrV("PushEvent"), payload |-> [size |-> IntV(0)]],
    [type |-> StrV("PushEvent")],
    [type |-> StrV("WatchEvent"), repo |-> octo_demo],
    [type |-> StrV("IssuesEvent"), repo |-> octo_demo,
     payload |-> [action |-> StrV(opened),
                  issue |-> [title |-> StrV("Crash on start"), number |-> IntV(42)]]],
    [type |-> StrV("IssuesEvent"), repo |-> octo_demo,
     payload |-> [issue |-> [title |-> StrV("Crash on start"), number |-> IntV(42)]]],
    [type |-> StrV("PullRequestEvent"), payload |-> [action |-> StrV(closed)]],
    [type |-> StrV("PullRequestEvent"), repo |-> octo_demo],
    [type |-> StrV("CreateEvent"), repo |-> octo_demo,
     payload |-> [ref_type |-> StrV("repository")]],
    [type |-> StrV("CreateEvent"), repo |-> octo_demo,
     payload |-> [ref_type |-> StrV("branch"), ref |-> StrV(feature_x)]],
    [type |-> StrV("CreateEvent"), payload |-> [ref_type |-> StrV("tag")]],
    [type |-> StrV("CreateEvent"), repo |-> octo_demo, payload |-> [ref |-> StrV(feature_x)]],
    [type |-> StrV("ForkEvent"), repo |-> octo_demo,
     payload |-> [forkee |-> [full_name |-> StrV("hubot/demo")]]],
    [type |-> StrV("DeleteEvent"), repo |-> octo_demo,
     payload |-> [ref_type |-> StrV("branch"), ref |-> StrV(feature_x)]],
    EmptyDict >>

\* the first len records of the endless repetition of a pattern
Cycle(pattern, len) == [i \in 1..len |-> pattern[((i - 1) % Len(pattern)) + 1]]

Patterns == UNION { [1..n -> 1..Len(Catalog)] : n \in 1..MaxPattern }

\* what json.loads makes of the response body
Bodies == { [json |-> "invalid"], [json |-> "null"] }
            \cup { [json |-> "array", pattern |-> p, len |-> n] :
                        p \in Patterns, n \in 0..MaxLen }

\* what urlopen does: raise HTTPError, raise URLError, or give a 2xx response
Outcomes == { [exc |-> "HTTPError", code |-> 404, reason |-> "Not Found"],
              [exc |-> "HTTPError", code |-> 403, reason |-> "Forbidden"],
              [exc |-> "HTTPError", code |-> 500, reason |-> "Internal Server Error"],
              [exc |-> "HTTPError", code |-> 401, reason |-> "Unauthorized"],
              [exc |-> "URLError", reason |-> "[Errno -2] Name or service not known"] }
            \cup { [exc |-> "", body |-> b] : b \in Bodies }

----------------------------------------------------------------------------
(* fetch_activity *)

List(v) == [t |-> "list", v |-> v]

\* isinstance: the classes each exception is an instance of
Classes(exc) == CASE exc = "HTTPError" -> {"HTTPError", "URLError", "OSError"}
                  [] exc = "URLError" -> {"URLError", "OSError"}
                  [] exc = "JSONDecodeError" -> {"JSONDecodeError", "ValueError"}

\* the clauses had "except URLError" been written first
ExceptClausesURLErrorFirst == <<"URLError", "HTTPError", "JSONDecodeError">>

\* the except clauses of fetch_activity, in source order
ExceptClauses == <<"HTTPError", "URLError", "JSONDecodeError">>

\* json.loads(data)
json_loads(body) ==
    CASE body.json = "invalid" -> [raises |-> [exc |-> "JSONDecodeError"]]
      [] body.json = "null" -> [returns |-> PyNone]
      [] body.json = "array" ->
            [returns |-> List([i \in 1..body.len |-> Catalog[Cycle(body.pattern, body.len)[i]]])]

\* the body of the try statement
TryBody(o) == IF o.exc # "" THEN [raises |-> o]
              ELSE json_loads(o.body)

\* a handler returning an empty list in place of None
HandlerReturnsEmptyList == List(<<>>)

\* "return None" at the end of each except clause
HandlerReturns == PyNone

\* what the clause that catches e prints
HandlerPrints(clause, e, user) ==
    CASE clause = "HTTPError" ->
            IF e.code = 404
            THEN <<"\nError: GitHub user '", user, "' not found. Please check the spelling.">>
            ELSE IF e.code = 403
            THEN <<"\nError: GitHub API rate limit exceeded (403 Forbidden). Try again later.">>
            ELSE <<"\nError fetching data: HTTP status code ", IntStr(e.code), " - ", e.reason>>
      [] clause = "URLError" -> <<"\nError connecting to GitHub API: ", e.reason>>
      [] clause = "JSONDecodeError" -> <<"\nError: Failed to parse API response as JSON.">>

\* the lines fetch_activity prints and the value it returns
fetch_activity(user, o) ==
    LET r == TryBody(o)
        notice == <<"-> Fetching activity for user: ", user, "...">>
    IN  IF "returns" \in DOMAIN r
        THEN [prints |-> <<notice>>, returns |-> r.returns]
        ELSE LET e == r.raises
                 matching == {i \in 1..Len(ExceptClauses) : ExceptClauses[i] \in Classes(e.exc)}
                 first == CHOOSE i \in matching : \A j \in matching : i <= j
             IN  [prints |-> <<notice, HandlerPrints(ExceptClauses[first], e, user)>>,
                  returns |-> HandlerReturns]

----------------------------------------------------------------------------
(* main *)

MAX_EVENTS_TO_SHOW == 10

NoOutcome == [exc |-> "unsent"]
Unset == [t |-> "unset"]

Init == /\ argv \in CommandLines
        /\ pc = "main"
        /\ username = ""
        /\ outcome = NoOutcome
        /\ requests = 0
        /\ events = Unset
        /\ idx = 0
        /\ displayed_count = 0
        /\ stdout = <<>>
        /\ raised = ""
        /\ exit_code = -1

\* the check had it been "len(sys.argv) != 2"
ArgsMissingNotExactlyOne(args) == Len(args) # 2

\* len(sys.argv) < 2
ArgsMissing(args) == Len(args) < 2

\* the test had it been "displayed_count > MAX_EVENTS_TO_SHOW"
LoopBreakOffByOne(count) == count > MAX_EVENTS_TO_SHOW

\* displayed_count >= MAX_EVENTS_TO_SHOW
LoopBreak(count) == count >= MAX_EVENTS_TO_SHOW

\* "if formatted_line:" a string that is not empty
Truthy(r) == r.kind = "line" /\ r.text # <<>>

Exit(code) == /\ exit_code' = code
              /\ pc' = "exit"

\* the argument check fails: usage text and sys.exit(1)
Usage == /\ pc = "main"
         /\ ArgsMissing(argv)
         /\ stdout' = stdout \o << <<"Usage: python github_activity.py <username>">>,
                                   <<"Example: python github_activity.py louis-chatain">> >>
         /\ Exit(1)
         /\ UNCHANGED <<argv, username, outcome, requests, events, idx,
                        displayed_count, raised>>

\* username = sys.argv[1]; events = fetch_activity(username)
Fetch == /\ pc = "main"
         /\ ~ArgsMissing(argv)
         /\ \E o \in Outcomes :
               LET f == fetch_activity(argv[2], o)
               IN  /\ outcome' = o
                   /\ stdout' = stdout \o f.prints
                   /\ events' = f.returns
         /\ username' = argv[2]
         /\ requests' = requests + 1
         /\ pc' = "fetched"
         /\ UNCHANGED <<argv, idx, displayed_count, raised, exit_code>>

\* "if events is None: sys.exit(1)"
ExitOnNone == /\ pc = "fetched"
              /\ events.t = "none"
              /\ Exit(1)
              /\ UNCHANGED <<argv, username, outcome, requests, events, idx,
                             displayed_count, stdout, raised>>

\* the header, then "if not events:" the no-activity line and sys.exit(0),
\* else the loop starts
Header == /\ pc = "fetched"
          /\ events.t # "none"
          /\ IF Len(events.v) = 0
             THEN /\ stdout' = stdout \o << <<"\n--- Recent GitHub Activity ---">>,
                                            <<"No recent public activity found for user: ",
                                              username, ".">> >>
                  /\ Exit(0)
                  /\ UNCHANGED <<idx, displayed_count>>
             ELSE /\ stdout' = Append(stdout, <<"\n--- Recent GitHub Activity ---">>)
                  /\ displayed_count' = 0
                  /\ idx' = 1
                  /\ pc' = "loop"
                  /\ UNCHANGED exit_code
          /\ UNCHANGED <<argv, username, outcome, requests, events, raised>>

\* one iteration of "for event in events:" that does not break
LoopBody == /\ pc = "loop"
            /\ idx <= Len(events.v)
            /\ ~LoopBreak(displayed_count)
            /\ LET formatted_line == format_event(events.v[idx])
               IN  IF formatted_line.kind = "raise"
                   THEN /\ raised' = formatted_line.exc
                        /\ Exit(1)
                        /\ UNCHANGED <<idx, displayed_count, stdout>>
                   ELSE /\ IF Truthy(formatted_line)
                           THEN /\ stdout' = Append(stdout, <<"- ">> \o formatted_line.text)
                                /\ displayed_count' = displayed_count + 1
                           ELSE UNCHANGED <<stdout, displayed_count>>
                        /\ idx' = idx + 1
                        /\ UNCHANGED <<raised, pc, exit_code>>
            /\ UNCHANGED <<argv, username, outcome, requests, events>>

\* the loop ends (break or list exhausted); "if displayed_count == 0:" the
\* none-displayed line; main returns and the process exits with status 0
LoopEnd == /\ pc = "loop"
           /\ idx > Len(events.v) \/ LoopBreak(displayed_count)
           /\ IF displayed_count = 0
              THEN stdout' = Append(stdout,
                       <<"Found events, but none of the recent public activities for ",
                         username, " could be displayed.">>)
              ELSE UNCHANGED stdout
           /\ Exit(0)
           /\ UNCHANGED <<argv, username, outcome, requests, events, idx,
                          displayed_count, raised>>

Next == Usage \/ Fetch \/ ExitOnNone \/ Header \/ LoopBody \/ LoopEnd

Spec == Init /\ [][Next]_vars

----------------------------------------------------------------------------
(* Vocabulary of the properties *)

HeaderLine == <<"\n--- Recent GitHub Activity ---">>

IsBullet(l) == l[1] = "- "
Bullets == Cardinality({i \in DOMAIN stdout : IsBullet(stdout[i])})
Printed(first) == \E i \in DOMAIN stdout : stdout[i][1] = first

HeaderPrinted == Printed("\n--- Recent GitHub Activity ---")
NoActivityPrinted == Printed("No recent public activity found for user: ")
NoneDisplayedPrinted == Printed("Found events, but none of the recent public activities for ")
UsagePrinted == Printed("Usage: python github_activity.py <username>")

\* the five kinds of fetch failure, "" when the fetch did not fail that way
FailureKind(o) ==
    CASE o.exc = "HTTPError" /\ o.code = 404 -> "NotFound"
      [] o.exc = "HTTPError" /\ o.code = 403 -> "RateLimited"
      [] o.exc = "HTTPError" /\ o.code \notin {403, 404} -> "HttpError"
      [] o.exc = "URLError" -> "NetworkError"
      [] o.exc = "" /\ o.body.json = "invalid" -> "DecodeError"
      [] OTHER -> ""

FailureKinds == {"NotFound", "RateLimited", "HttpError", "NetworkError", "DecodeError"}

\* how the message of each kind begins
ErrorPrefix(kind) ==
    CASE kind = "NotFound" -> "\nError: GitHub user '"
      [] kind = "RateLimited" -> "\nError: GitHub API rate limit exceeded (403 Forbidden). Try again later."
      [] kind = "HttpError" -> "\nError fetching data: HTTP status code "
      [] kind = "NetworkError" -> "\nError connecting to GitHub API: "
      [] kind = "DecodeError" -> "\nError: Failed to parse API response as JSON."

ErrorLines == {i \in DOMAIN stdout : \E k \in FailureKinds : stdout[i][1] = ErrorPrefix(k)}

ArrayReturned == outcome.exc = "" /\ outcome.body.json = "array"

\* the records of the fetched list that format to a line
Formattable == {i \in 1..Len(events.v) : format_event(events.v[i]).kind = "line"}
Skipped == {i \in 1..Len(events.v) : format_event(events.v[i]).kind = "none"}

Min(a, b) == IF a <= b THEN a ELSE b

----------------------------------------------------------------------------
(* Properties *)

\* C1: a run prints at most MAX_EVENTS_TO_SHOW bullet lines, and
\* displayed_count never exceeds the bound, whatever the fetched list is.
C1_AtMostMaxBullets ==
    /\ Bullets <= MAX_EVENTS_TO_SHOW
    /\ displayed_count <= MAX_EVENTS_TO_SHOW
    /\ pc \in {"loop", "exit"} /\ events.t = "list" /\ events.v # <<>> => Bullets = displayed_count

\* the loop broke at the bound with a record that formats to a line left over
C1_Witness ==
    /\ pc = "exit"
    /\ events.t = "list"
    /\ Bullets = MAX_EVENTS_TO_SHOW
    /\ idx \in Formattable

\* C2: records that produce no line do not count toward the bound: a run on
\* a list with k records that format to a line prints exactly
\* min(k, MAX_EVENTS_TO_SHOW) bullet lines.
C2_SkippedDoNotCount ==
    pc = "exit" /\ events.t = "list" =>
        Bullets = Min(Cardinality(Formattable), MAX_EVENTS_TO_SHOW)

\* C3: format_event raises no error: every record gives a line or no line,
\* and the run never aborts inside the display loop.
C3_FormatterRaisesNoErrors ==
    /\ raised = ""
    /\ events.t = "list" =>
          \A i \in 1..Len(events.v) : format_event(events.v[i]).kind \in {"line", "none"}

\* C4 as stated: with a missing username or with extra arguments the run
\* prints the usage text, exits non-zero and performs no fetch.
C4_MissingOrExtraIsUsage ==
    Len(argv) # 2 =>
        /\ requests = 0
        /\ pc = "exit" => exit_code # 0 /\ UsagePrinted

\* C4 amended: with a missing username the run prints the usage text, exits
\* non-zero and performs no fetch; arguments after the username are ignored
\* and the run fetches for the first argument.
C4_MissingIsUsageExtraIgnored ==
    /\ Len(argv) < 2 =>
          /\ requests = 0
          /\ pc = "exit" => exit_code # 0 /\ UsagePrinted /\ Len(stdout) = 2
    /\ Len(argv) >= 2 /\ pc # "main" =>
          /\ requests = 1
          /\ username = argv[2]
          /\ ~UsagePrinted

C4_Witness ==
    /\ Len(argv) < 2
    /\ pc = "exit"
    /\ exit_code = 1
    /\ UsagePrinted

\* C5: each of the five kinds of fetch failure prints its own message and
\* no other (404: not found, with the username; 403: rate limit; another
\* status: code and reason; URLError: network error; invalid JSON: decode
\* error), the fetch returns None and the run ends with a non-zero status
\* without printing anything more.
C5_FailuresClassified ==
    LET kind == FailureKind(outcome)
    IN  kind # "" =>
          /\ events.t = "none"
          /\ Len(stdout) = 2
          /\ ErrorLines = {2}
          /\ stdout[2][1] = ErrorPrefix(kind)
          /\ \A k \in FailureKinds \ {kind} : stdout[2][1] # ErrorPrefix(k)
          /\ kind = "NotFound" =>
                stdout[2] = <<"\nError: GitHub user '", username,
                              "' not found. Please check the spelling.">>
          /\ kind = "HttpError" =>
                stdout[2] = <<"\nError fetching data: HTTP status code ",
                              IntStr(outcome.code), " - ", outcome.reason>>
          /\ kind = "NetworkError" =>
                stdout[2] = <<"\nError connecting to GitHub API: ", outcome.reason>>
          /\ kind \in {"RateLimited", "DecodeError"} => Len(stdout[2]) = 1
          /\ pc \in {"fetched", "exit"}
          /\ pc = "exit" => exit_code = 1

C5_Witness ==
    /\ FailureKind(outcome) = "NotFound"
    /\ pc = "exit"
    /\ exit_code = 1
    /\ stdout[2][2] = "octocat"

\* C6: a run that exits with a non-zero status has printed the usage text
\* or one of the fetch error messages.
C6_NonZeroExitHasMessage ==
    pc = "exit" /\ exit_code # 0 => UsagePrinted \/ ErrorLines # {}

\* C7: with a username and a 2xx response whose body is a JSON array the
\* run ends with status 0; the status is non-zero only when the fetch
\* failed or the username is missing.
C7_ArrayExitsZero ==
    pc = "exit" =>
        /\ ~ArgsMissing(argv) /\ ArrayReturned => exit_code = 0
        /\ exit_code # 0 => ArgsMissing(argv) \/ events.t = "none"

\* C8: the header and the bullet lines are printed only after
\* fetch_activity returned a decoded list; a run whose fetch failed prints
\* neither.
C8_NoOutputOnFailedFetch ==
    /\ HeaderPrinted \/ Bullets > 0 \/ NoActivityPrinted \/ NoneDisplayedPrinted =>
          /\ events.t = "list"
          /\ ArrayReturned
          /\ pc \in {"loop", "exit"}
    /\ FailureKind(outcome) # "" =>
          /\ ~HeaderPrinted
          /\ Bullets = 0
          /\ pc = "exit" => exit_code # 0

C8_Witness ==
    /\ FailureKind(outcome) = "DecodeError"
    /\ pc = "exit"
    /\ exit_code = 1
    /\ ~HeaderPrinted

\* the loop has just handled a PushEvent: its bullet is the last line printed
PushJustPrinted ==
    /\ pc = "loop"
    /\ idx > 1
    /\ PyEq(Get(events.v[idx - 1], "type", PyNone), StrV("PushEvent"))

LastLine == stdout[Len(stdout)]
JustHandledSize == Get(Get(events.v[idx - 1], "payload", EmptyDict), "size", PyNone)

\* the bullet of a PushEvent reads "- Pushed {count} commit{s} ..."
IsPushBullet(l) == l[1] = "- " /\ l[2] = "Pushed " /\ l[4] = " commit"
PluralRendered(l) == l[5] = "s"

\* C9 as stated: a PushEvent's line has the plural "commits" if and only if
\* payload.size is greater than 1 (0 and an absent size are not plural).
C9_PluralIffGreaterThanOne ==
    PushJustPrinted =>
        /\ IsPushBullet(LastLine)
        /\ PluralRendered(LastLine) <=> (JustHandledSize.t = "int" /\ JustHandledSize.v > 1)

\* C9 amended: a PushEvent's line has the singular "commit" if and only if
\* payload.size equals 1; every other count, 0 and an absent size (rendered
\* as "x") included, has the plural "commits".
C9_SingularIffOne ==
    PushJustPrinted =>
        /\ IsPushBullet(LastLine)
        /\ LastLine[5] \in {"", "s"}
        /\ LastLine[5] = "" <=> (JustHandledSize.t = "int" /\ JustHandledSize.v = 1)
        /\ JustHandledSize.t = "int" => LastLine[3] = IntStr(JustHandledSize.v)
        /\ JustHandledSize.t = "none" => LastLine[3] = "x"

\* a PushEvent with size 0 was printed with the plural
C9_Witness ==
    /\ PushJustPrinted
    /\ JustHandledSize.t = "int"
    /\ JustHandledSize.v = 0
    /\ LastLine[3] = "0"
    /\ PluralRendered(LastLine)

\* C10: after a successful fetch the run reports exactly one of: at least
\* one bullet line; the no-activity line, if and only if the list is empty;
\* the none-displayed line, if and only if the list is not empty and every
\* record was skipped, in which case the run still ends with status 0.
C10_ExactlyOneOutcome ==
    pc = "exit" /\ events.t = "list" =>
        /\ HeaderPrinted
        /\ Cardinality({b \in {"bullets", "none", "empty"} :
                \/ b = "bullets" /\ Bullets > 0
                \/ b = "none" /\ NoneDisplayedPrinted
                \/ b = "empty" /\ NoActivityPrinted}) = 1
        /\ NoActivityPrinted <=> events.v = <<>>
        /\ NoneDisplayedPrinted <=>
              (events.v # <<>> /\ Skipped = 1..Len(events.v))
        /\ NoneDisplayedPrinted => exit_code = 0

====
